---- MODULE Spec2Model ----
(***************************************************************************)
(* Rietveld template library (codereview/library.py): show_user and        *)
(* show_users over the shared memcache, get_nickname over the per-request  *)
(* nickname map, and the urlappend_view_settings tag.                      *)
(*                                                                         *)
(* Python strings that the code takes apart (emails, nicknames) are        *)
(* sequences of one-character strings; strings the code only builds        *)
(* (fragments, cache keys, query strings) are TLA+ strings.  A Python      *)
(* value that may be None is <<>> (None) or <<v>> (the value v).           *)
(***************************************************************************)
EXTENDS Integers, Sequences, FiniteSets, TLC

None == <<>>
Some(v) == <<v>>
Val(o) == o[1]

(***************************************************************************)
(* Bounds of the model.                                                    *)
(***************************************************************************)
\* Seconds that pass in one Tick of the clock, and the last instant modelled.
TickSeconds == 150
MaxTime == 300
\* Longest email_list handed to show_users.
MaxListLen == 2
\* Longest email and nickname of the rendering specification.
MaxEmailLen == 3
MaxNickLen == 1
\* Largest magnitude of a template integer (context, column_width).
MaxInt == 80
\* Calls of get_nickname made within one request.
MaxCalls == 3
\* Changes of the clock, of the account store and of the cache by another
\* request that fall within one call of a filter.
MaxDisturbances == 1

\* memcache.add(..., 300): the time to live of a cache entry, in seconds.
TTL == 300

(***************************************************************************)
(* Strings                                                                 *)
(***************************************************************************)
RECURSIVE Str(_)
\* The Python string spelled by a sequence of characters.
Str(s) == IF s = <<>> THEN "" ELSE Head(s) \o Str(Tail(s))

\* cgi.escape(s) with quote unset replaces "&" by "&amp;", then "<" by "&lt;",
\* then ">" by "&gt;", and keeps quotes.  As "&" is replaced first, no
\* replacement touches the output of another: each character is mapped once.
EscapeChar(c) ==
  CASE c = "&" -> "&amp;"
    [] c = "<" -> "&lt;"
    [] c = ">" -> "&gt;"
    [] OTHER -> c

RECURSIVE Escape(_)
Escape(s) == IF s = <<>> THEN "" ELSE EscapeChar(Head(s)) \o Escape(Tail(s))

RECURSIVE DomainPart(_)
\* Mutant of LocalPart: split('@', 1)[-1], the part after the first '@'.
DomainPart(s) ==
  IF s = <<>> THEN <<>>
  ELSE IF Head(s) = "@" THEN Tail(s)
  ELSE IF \E i \in DOMAIN s : s[i] = "@" THEN DomainPart(Tail(s))
  ELSE s

RECURSIVE LocalPart(_)
\* nick = email; if '@' in nick: nick = nick.split('@', 1)[0]
LocalPart(s) ==
  IF s = <<>> THEN <<>>
  ELSE IF Head(s) = "@" THEN <<>>
  ELSE <<Head(s)>> \o LocalPart(Tail(s))

\* The anchor of lines 50-51, with key the escaped nickname.
Anchor(key) ==
  "<a href=\"/user/" \o key \o "\" onMouseOver=\"M_showUserInfoPopup(this)\">"
    \o key \o "</a>"

\* Mutant of Render: the link is drawn for every account, chosen nickname or not.
RenderAnyAccount(account, email) ==
  IF account # None
  THEN Anchor(Escape(Val(account).nickname))
  ELSE Escape(LocalPart(email))

\* Lines 49-57: the fragment show_user computes on a cache miss.
Render(account, email) ==
  IF account # None /\ Val(account).user_has_selected_nickname
  THEN Anchor(Escape(Val(account).nickname))
  ELSE Escape(LocalPart(email))

(***************************************************************************)
(* The shared cache, the account store and the clock                       *)
(***************************************************************************)
EmailA == <<"a", "@", "x">>
EmailB == <<"b">>
Emails == {EmailA, EmailB}
\* users.get_current_user(): None, or a user whose email() is one of Emails.
Users == {None} \cup {Some(e) : e \in Emails}
Nick == <<"N", "&">>
\* An Account with nickname Nick, chosen by the user or not.
Account(chosen) ==
  Some([nickname |-> Nick, user_has_selected_nickname |-> chosen])
\* What get_account_for_email can return for an email: a@x has no account or
\* one with a chosen nickname, b has an account, its nickname chosen or not.
Accounts(email) ==
  IF email = EmailA THEN {None, Account(TRUE)}
  ELSE {Account(FALSE), Account(TRUE)}

\* 'show_user:' + email
Key(email) == "show_user:" \o Str(email)
Keys == {Key(e) : e \in Emails}

\* Mutant of MemcacheGet: the key is looked up without its 'show_user:' prefix,
\* which is the key of no entry.
MemcacheGetBareKey(c, key) == None

\* memcache.get(key): the value of a live entry, else None.
MemcacheGet(c, key) == IF c[key] = None THEN None ELSE Some(Val(c[key]).value)

\* Mutant of MemcacheAdd: memcache.set, which overwrites a live entry.
MemcacheSet(c, key, value, t) ==
  [c EXCEPT ![key] = Some([value |-> value, expires |-> t + TTL])]

\* memcache.add(key, value, 300): creates the entry unless a live one exists.
MemcacheAdd(c, key, value, t) ==
  IF c[key] = None
  THEN [c EXCEPT ![key] = Some([value |-> value, expires |-> t + TTL])]
  ELSE c

\* The entries of c that are still live at time t.
Expire(c, t) ==
  [k \in DOMAIN c |-> IF c[k] # None /\ Val(c[k]).expires <= t THEN None ELSE c[k]]

\* Mutant of IsMe: "if arg" for "if not arg".
IsMeWhenArg(email, arg, user) == arg /\ user # None /\ email = Val(user)

\* Lines 36-39: "me" is rendered for the current user unless arg is set.
IsMe(email, arg, user) == ~arg /\ user # None /\ email = Val(user)

VARIABLES
  now,        \* the clock of the cache service, in seconds
  cache,      \* memcache: key -> None or an entry [value, expires]
  accounts,   \* the account store: email -> None or an Account
  proc,       \* the concurrent show_user calls: process -> its frame
  frame,      \* the show_user or show_users filter of one request, step by step
  request,    \* the HttpRequest of get_nickname, with its _nicknames map
  input,      \* the arguments of the function under test
  output      \* its result, None until it has run

vars == <<now, cache, accounts, proc, frame, request, input, output>>

Procs == {1, 2}

Idle == [pc |-> "idle"]

WorldInit ==
  /\ now = 0
  /\ cache = [k \in Keys |-> None]
  /\ accounts \in {f \in [Emails -> {None, Account(FALSE), Account(TRUE)}] :
                    \A e \in Emails : f[e] \in Accounts(e)}

\* Time passes, by the given number of seconds; entries that reached their
\* time to live are gone.
TickWorld(seconds) ==
  /\ now + seconds <= MaxTime
  /\ now' = now + seconds
  /\ cache' = Expire(cache, now + seconds)
  /\ UNCHANGED accounts

Tick ==
  TickWorld(TickSeconds) /\ UNCHANGED <<proc, frame, request, input, output>>

\* The account of an email is created, changed or deleted (outside this module).
UpdateAccountWorld ==
  /\ \E e \in Emails : \E a \in Accounts(e) :
       /\ accounts[e] # a
       /\ accounts' = [accounts EXCEPT ![e] = a]
  /\ UNCHANGED <<now, cache>>

UpdateAccount ==
  UpdateAccountWorld /\ UNCHANGED <<proc, frame, request, input, output>>

(***************************************************************************)
(* show_user(email, arg), one step per access to the cache or the store    *)
(***************************************************************************)
\* The earlier miss a call can see at its cache read: the other process's
\* finished call for the same email that missed the cache, if this read falls
\* within 300 seconds of that call's cache write.
PriorMiss(p, email) ==
  LET q == CHOOSE r \in Procs : r # p
  IN IF /\ proc[q].pc = "done"
        /\ ~proc[q].me
        /\ proc[q].email = email
        /\ ~proc[q].hit
        /\ now < proc[q].addAt + TTL
     THEN Some([ret |-> proc[q].ret, created |-> proc[q].created])
     ELSE None

\* Lines 32-39: the call starts; "me" is returned at once.
Call(p) ==
  /\ proc[p].pc = "idle"
  /\ \E email \in Emails, arg \in BOOLEAN, user \in Users :
       proc' = [proc EXCEPT ![p] =
         IF IsMe(email, arg, user)
         THEN [pc |-> "done", email |-> email, me |-> TRUE, ret |-> "me",
               hit |-> FALSE, queried |-> FALSE, created |-> FALSE,
               addAt |-> 0, prior |-> None]
         ELSE [pc |-> "get", email |-> email]]
  /\ UNCHANGED <<now, cache, accounts, frame, request, input, output>>

\* Line 44: ret = memcache.get('show_user:' + email); a hit is returned.
GetStep(p) ==
  /\ proc[p].pc = "get"
  /\ LET email == proc[p].email
         ret == MemcacheGet(cache, Key(email))
     IN proc' = [proc EXCEPT ![p] =
          IF ret # None
          THEN [pc |-> "done", email |-> email, me |-> FALSE, ret |-> Val(ret),
                hit |-> TRUE, queried |-> FALSE, created |-> FALSE,
                addAt |-> 0, prior |-> PriorMiss(p, email)]
          ELSE [pc |-> "query", email |-> email, prior |-> PriorMiss(p, email)]]

Get(p) ==
  /\ GetStep(p)
  /\ UNCHANGED <<now, cache, accounts, frame, request, input, output>>

\* Lines 48-57: the account is fetched and the fragment rendered.
QueryStep(p) ==
  /\ proc[p].pc = "query"
  /\ LET email == proc[p].email
     IN proc' = [proc EXCEPT ![p] =
          [pc |-> "add", email |-> email, prior |-> proc[p].prior,
           account |-> accounts[email],
           ret |-> Render(accounts[email], email)]]

Query(p) ==
  /\ QueryStep(p)
  /\ UNCHANGED <<now, cache, accounts, frame, request, input, output>>

\* Lines 59-66: memcache.add('show_user:%s' % email, ret, 300); return ret.
AddStep(p) ==
  /\ proc[p].pc = "add"
  /\ LET email == proc[p].email
         after == MemcacheAdd(cache, Key(email), proc[p].ret, now)
     IN /\ cache' = after
        /\ proc' = [proc EXCEPT ![p] =
             [pc |-> "done", email |-> email, me |-> FALSE, ret |-> proc[p].ret,
              hit |-> FALSE, queried |-> TRUE, created |-> after # cache,
              addAt |-> now, prior |-> proc[p].prior,
              account |-> proc[p].account]]

Add(p) ==
  /\ AddStep(p)
  /\ UNCHANGED <<now, accounts, frame, request, input, output>>

\* The caller is done with the result; the process serves its next request.
Reset(p) ==
  /\ proc[p].pc = "done"
  /\ proc' = [proc EXCEPT ![p] = Idle]
  /\ UNCHANGED <<now, cache, accounts, frame, request, input, output>>

Init ==
  /\ WorldInit
  /\ proc = [p \in Procs |-> Idle]
  /\ frame = Idle
  /\ request = None
  /\ input = None
  /\ output = None

Next ==
  \/ Tick
  \/ UpdateAccount
  \/ \E p \in Procs : Call(p)
  \/ \E p \in Procs : Get(p)
  \/ \E p \in Procs : Query(p)
  \/ \E p \in Procs : Add(p)
  \/ \E p \in Procs : Reset(p)

Spec == Init /\ [][Next]_vars

(***************************************************************************)
(* Claims about concurrent show_user calls (specification Spec)            *)
(***************************************************************************)
Missed(p) == proc[p].pc = "done" /\ ~proc[p].me /\ ~proc[p].hit

\* C1 as stated: a show_user(email) call that reads the cache within 300
\* seconds of the cache write of an earlier, finished show_user(email) call
\* that missed the cache is a cache hit, returns the fragment the earlier call
\* returned, and does not query the account store.
C1_AsStated ==
  \A p \in Procs :
    (proc[p].pc = "done" /\ ~proc[p].me /\ proc[p].prior # None) =>
      /\ proc[p].hit
      /\ proc[p].ret = Val(proc[p].prior).ret
      /\ ~proc[p].queried

\* C1 amended: the same, for an earlier call whose memcache.add created the
\* cache entry (another call's concurrent miss may have created it first, with
\* a fragment rendered from a different state of the account).
C1_CachedWithinTTL ==
  \A p \in Procs :
    (/\ proc[p].pc = "done" /\ ~proc[p].me
     /\ proc[p].prior # None /\ Val(proc[p].prior).created) =>
      /\ proc[p].hit
      /\ proc[p].ret = Val(proc[p].prior).ret
      /\ ~proc[p].queried

\* A later call answered from the cache with the earlier call's fragment,
\* although the account has changed since and would render differently.
C1_Witness ==
  \E p \in Procs :
    /\ proc[p].pc = "done" /\ ~proc[p].me /\ proc[p].hit
    /\ proc[p].prior # None /\ Val(proc[p].prior).created
    /\ proc[p].ret = Val(proc[p].prior).ret
    /\ proc[p].ret # Render(accounts[proc[p].email], proc[p].email)
    /\ now > 0

\* C8, in every state: a call under way can take its next step; a call that
\* missed returns the fragment it rendered from the account it fetched; of two
\* finished calls that missed for the same email, one created the entry, and
\* if only one did, the entry (until it expires) holds that call's fragment.
C8_State ==
  /\ \A p \in Procs :
       /\ proc[p].pc \in {"get", "query", "add"} =>
            ENABLED (GetStep(p) \/ QueryStep(p) \/ AddStep(p))
       /\ Missed(p) =>
            proc[p].ret = Render(proc[p].account, proc[p].email)
  /\ \A p, q \in Procs :
       (p # q /\ Missed(p) /\ Missed(q) /\ proc[p].email = proc[q].email) =>
         /\ proc[p].created \/ proc[q].created
         /\ (proc[p].created /\ ~proc[q].created) =>
              \/ cache[Key(proc[p].email)] = None
              \/ Val(cache[Key(proc[p].email)]).value = proc[p].ret

\* C8, in every step: an existing entry is never overwritten or deleted; it
\* only goes away when its time to live has passed.
C8_Step ==
  \A k \in Keys :
    (cache[k] # None /\ cache'[k] # cache[k]) =>
      (cache'[k] = None /\ now' >= Val(cache[k]).expires)

\* C8: show_user writes the cache create-if-absent and races are harmless.
C8_CreateIfAbsent == []C8_State /\ [][C8_Step]_vars

\* Two calls for one email both missed and rendered different fragments; the
\* second write had no effect, the entry holds the first writer's fragment.
C8_Witness ==
  \E p, q \in Procs :
    /\ p # q /\ Missed(p) /\ Missed(q) /\ proc[p].email = proc[q].email
    /\ proc[p].created /\ ~proc[q].created
    /\ proc[p].ret # proc[q].ret
    /\ cache[Key(proc[p].email)] # None
    /\ Val(cache[Key(proc[p].email)]).value = proc[p].ret

(***************************************************************************)
(* show_user and show_users, one step per access to the cache or the store *)
(***************************************************************************)
\* dict.get(k): None when k is no key of d.
DictGet(d, k) == IF k \in DOMAIN d THEN Some(d[k]) ELSE None

\* d[k] = v
DictSet(d, k, v) == [x \in DOMAIN d \cup {k} |-> IF x = k THEN v ELSE d[x]]

EmptyDict == [x \in {} |-> ""]

\* Mutant of GetMulti: key_prefix is left out, so the bare emails are looked
\* up and none is a key of the cache.
GetMultiNoPrefix(c, email_list) == EmptyDict

\* Line 75: memcache.get_multi(email_list, key_prefix='show_user:'), a dict
\* from each email that has a live entry to the entry's value.
GetMulti(c, email_list) ==
  [e \in {x \in {email_list[i] : i \in DOMAIN email_list} : c[Key(x)] # None}
     |-> Val(c[Key(e)]).value]

\* Lines 41-44: the batch mapping, when supplied, is read instead of the cache.
Lookup(memcache_results, c, email) ==
  IF memcache_results # None
  THEN DictGet(Val(memcache_results), email)
  ELSE MemcacheGet(c, Key(email))

\* A show_user call about to run line 36: its arguments, the current user,
\* ret (None so far) and whether it has read the cache, queried the account
\* store and called memcache.add.
NewCall(email, arg, user, memcache_results) ==
  [pc |-> "lookup", email |-> email, arg |-> arg, user |-> user,
   memcache_results |-> memcache_results, ret |-> None,
   got |-> FALSE, queried |-> FALSE, added |-> FALSE]

\* Mutant of ShowUserStep: "me" is returned through the cache, like any
\* fragment.
ShowUserStepCachingMe(call, c, accts, t) ==
  CASE call.pc = "lookup" ->
         LET ret == Lookup(call.memcache_results, c, call.email)
         IN [call |-> [call EXCEPT
                         !.pc = IF ret # None THEN "done"
                                ELSE IF IsMe(call.email, call.arg, call.user)
                                THEN "add" ELSE "query",
                         !.ret = IF ret = None
                                    /\ IsMe(call.email, call.arg, call.user)
                                 THEN Some("me") ELSE ret,
                         !.got = (call.memcache_results = None)],
             cache |-> c]
    [] call.pc = "query" ->
         [call |-> [call EXCEPT
                      !.pc = "add",
                      !.ret = Some(Render(accts[call.email], call.email)),
                      !.queried = TRUE],
          cache |-> c]
    [] call.pc = "add" ->
         [call |-> [call EXCEPT
                      !.pc = "done",
                      !.added = TRUE,
                      !.memcache_results =
                        IF @ # None
                        THEN Some(DictSet(Val(@), call.email, Val(call.ret)))
                        ELSE @],
          cache |-> MemcacheAdd(c, Key(call.email), Val(call.ret), t)]

\* Mutant of ShowUserStep: the fresh fragment is not put into the batch mapping.
ShowUserStepNotPopulating(call, c, accts, t) ==
  CASE call.pc = "lookup" ->
         IF IsMe(call.email, call.arg, call.user)
         THEN [call |-> [call EXCEPT !.pc = "done", !.ret = Some("me")],
               cache |-> c]
         ELSE LET ret == Lookup(call.memcache_results, c, call.email)
              IN [call |-> [call EXCEPT
                              !.pc = IF ret # None THEN "done" ELSE "query",
                              !.ret = ret,
                              !.got = (call.memcache_results = None)],
                  cache |-> c]
    [] call.pc = "query" ->
         [call |-> [call EXCEPT
                      !.pc = "add",
                      !.ret = Some(Render(accts[call.email], call.email)),
                      !.queried = TRUE],
          cache |-> c]
    [] call.pc = "add" ->
         [call |-> [call EXCEPT !.pc = "done", !.added = TRUE],
          cache |-> MemcacheAdd(c, Key(call.email), Val(call.ret), t)]

\* show_user from where the call stands up to and including its next access
\* to the cache or the account store (or to its return), in the cache c and
\* the account store accts at time t: the call and the cache after the step.
\*   "lookup": lines 36-44, "me" or the read of the batch mapping or of the
\*             cache; a value found is returned;
\*   "query":  lines 46-57, the account is fetched and the fragment rendered;
\*   "add":    lines 59-66, memcache.add, the batch mapping is populated and
\*             the fragment returned.
ShowUserStep(call, c, accts, t) ==
  CASE call.pc = "lookup" ->
         IF IsMe(call.email, call.arg, call.user)
         THEN [call |-> [call EXCEPT !.pc = "done", !.ret = Some("me")],
               cache |-> c]
         ELSE LET ret == Lookup(call.memcache_results, c, call.email)
              IN [call |-> [call EXCEPT
                              !.pc = IF ret # None THEN "done" ELSE "query",
                              !.ret = ret,
                              !.got = (call.memcache_results = None)],
                  cache |-> c]
    [] call.pc = "query" ->
         [call |-> [call EXCEPT
                      !.pc = "add",
                      !.ret = Some(Render(accts[call.email], call.email)),
                      !.queried = TRUE],
          cache |-> c]
    [] call.pc = "add" ->
         [call |-> [call EXCEPT
                      !.pc = "done",
                      !.added = TRUE,
                      !.memcache_results =
                        IF @ # None
                        THEN Some(DictSet(Val(@), call.email, Val(call.ret)))
                        ELSE @],
          cache |-> MemcacheAdd(c, Key(call.email), Val(call.ret), t)]

\* What one show_user call did: its return value, the batch mapping and the
\* cache after it, and whether it read the cache, queried the account store
\* and called memcache.add.
Outcome(ret, memcache_results, c, got, queried, added) ==
  [ret |-> ret, memcache_results |-> memcache_results, cache |-> c,
   got |-> got, queried |-> queried, added |-> added]

RECURSIVE RunShowUser(_, _, _, _)
\* The call run from where it stands to its return with no other request,
\* clock or store step in between.
RunShowUser(call, c, accts, t) ==
  IF call.pc = "done"
  THEN Outcome(Val(call.ret), call.memcache_results, c,
               call.got, call.queried, call.added)
  ELSE LET s == ShowUserStep(call, c, accts, t)
       IN RunShowUser(s.call, s.cache, accts, t)

\* show_user(email, arg, memcache_results=...), lines 32-66, as one
\* uninterrupted call.
ShowUser(email, arg, user, memcache_results, c, accts, t) ==
  RunShowUser(NewCall(email, arg, user, memcache_results), c, accts, t)

RECURSIVE Join(_)
\* ', '.join(parts)
Join(parts) ==
  IF parts = <<>> THEN ""
  ELSE IF Len(parts) = 1 THEN parts[1]
  ELSE parts[1] \o ", " \o Join(Tail(parts))

RECURSIVE EachShowUser(_, _, _, _, _, _)
\* show_user(email, arg) called on each element in turn, no batch mapping:
\* [parts, cache] after the calls.
EachShowUser(email_list, arg, user, c, accts, t) ==
  IF email_list = <<>> THEN [parts |-> <<>>, cache |-> c]
  ELSE LET r == ShowUser(Head(email_list), arg, user, None, c, accts, t)
           rest == EachShowUser(Tail(email_list), arg, user, r.cache, accts, t)
       IN [parts |-> <<r.ret>> \o rest.parts, cache |-> rest.cache]

RECURSIVE RenderEach(_, _, _, _, _, _, _)
\* Lines 76-78: the generator of show_users, run to its end without another
\* request in between: [parts, cache, wrote], wrote the values it handed to
\* memcache.add, by email.
RenderEach(email_list, arg, user, memcache_results, c, accts, t) ==
  IF email_list = <<>> THEN [parts |-> <<>>, cache |-> c, wrote |-> EmptyDict]
  ELSE LET e == Head(email_list)
           r == ShowUser(e, arg, user, memcache_results, c, accts, t)
           rest == RenderEach(Tail(email_list), arg, user, r.memcache_results,
                              r.cache, accts, t)
       IN [parts |-> <<r.ret>> \o rest.parts, cache |-> rest.cache,
           wrote |-> IF r.added THEN DictSet(rest.wrote, e, r.ret)
                     ELSE rest.wrote]

\* show_users(email_list, arg), lines 70-78, as one uninterrupted call.
ShowUsers(email_list, arg, user, c, accts, t) ==
  IF email_list = <<>> THEN [parts |-> <<>>, cache |-> c, wrote |-> EmptyDict]
  ELSE RenderEach(email_list, arg, user, Some(GetMulti(c, email_list)),
                  c, accts, t)

EmailLists == UNION {[1..n -> Emails] : n \in 0..MaxListLen}

Zero == [e \in Emails |-> 0]

\* The frame of a filter that has read what it reads up front: call is the
\* show_user call of element i, about to run.
Started(op, email_list, arg, user, memcache_results, multi, expected) ==
  [pc |-> "render", op |-> op, email_list |-> email_list, arg |-> arg,
   user |-> user, i |-> 1,
   call |-> IF email_list = <<>> THEN None
            ELSE NewCall(email_list[1], arg, user, memcache_results),
   memcache_results |-> memcache_results,
   parts |-> <<>>, multi |-> multi, gets |-> 0, queries |-> Zero,
   adds |-> Zero, wrote |-> EmptyDict, seen |-> EmptyDict,
   expected |-> expected, disturbed |-> 0]

\* A template applies the show_user filter.
BeginShowUser ==
  /\ frame.pc = "idle"
  /\ \E email \in Emails, arg \in BOOLEAN, user \in Users :
       frame' = Started("show_user", <<email>>, arg, user, None, 0, None)
  /\ UNCHANGED <<now, cache, accounts, proc, request, input, output>>

\* Lines 70-75: a template applies the show_users filter; an empty list is
\* answered at once, any other starts with the batch read.
BeginShowUsers ==
  /\ frame.pc = "idle"
  /\ \E email_list \in EmailLists, arg \in BOOLEAN, user \in Users :
       frame' =
         IF email_list = <<>>
         THEN [Started("show_users", email_list, arg, user, None, 0, Some(""))
                 EXCEPT !.pc = "done"]
         ELSE Started("show_users", email_list, arg, user,
                      Some(GetMulti(cache, email_list)), 1,
                      Some(Join(EachShowUser(email_list, arg, user, cache,
                                             accounts, now).parts)))
  /\ UNCHANGED <<now, cache, accounts, proc, request, input, output>>

\* Lines 76-78 (or the one call of the show_user filter): the show_user call
\* of the current email takes its next step; when it returns, its fragment is
\* kept and the call of the next email is about to run.
RenderNext ==
  /\ frame.pc = "render"
  /\ LET e == frame.email_list[frame.i]
         s == ShowUserStep(frame.call, cache, accounts, now)
         returned == s.call.pc = "done"
         last == frame.i = Len(frame.email_list)
         got == s.call.got /\ ~frame.call.got
         queried == s.call.queried /\ ~frame.call.queried
         added == s.call.added /\ ~frame.call.added
         bump(f, b) == IF b THEN [f EXCEPT ![e] = @ + 1] ELSE f
     IN /\ cache' = s.cache
        /\ frame' = [frame EXCEPT
             !.pc = IF returned /\ last THEN "done" ELSE "render",
             !.i = IF returned THEN @ + 1 ELSE @,
             !.call = IF returned /\ ~last
                      THEN NewCall(frame.email_list[frame.i + 1], frame.arg,
                                   frame.user, s.call.memcache_results)
                      ELSE s.call,
             !.memcache_results = s.call.memcache_results,
             !.parts = IF returned THEN Append(@, Val(s.call.ret)) ELSE @,
             !.gets = IF got THEN @ + 1 ELSE @,
             !.queries = bump(@, queried),
             !.adds = bump(@, added),
             !.wrote = IF added THEN DictSet(@, e, Val(s.call.ret)) ELSE @,
             !.seen = IF queried THEN DictSet(@, e, accounts[e]) ELSE @]
  /\ UNCHANGED <<now, accounts, proc, request, input, output>>

\* The value the filter returned: the fragment, or the joined fragments.
Returned(f) == IF f.op = "show_user" THEN f.parts[1] ELSE Join(f.parts)

\* The template has the result; the request goes on to its next filter.
Finish ==
  /\ frame.pc = "done"
  /\ frame' = Idle
  /\ UNCHANGED <<now, cache, accounts, proc, request, input, output>>

\* The clock, the account store or the cache changes under the filter: between
\* two calls, or while a call is under way (at most MaxDisturbances times
\* within one call).
Disturbed ==
  IF frame.pc = "render"
  THEN /\ frame.disturbed < MaxDisturbances
       /\ frame' = [frame EXCEPT !.disturbed = @ + 1, !.expected = None]
  ELSE frame' = frame

\* The process that serves another request.
Other == 1

\* Another request calls show_user(email) and the call reads the cache (lines
\* 32-44; a call that renders "me" touches neither the cache nor the store, so
\* this one is for somebody else's email).  A hit is returned at once.
OtherCall ==
  /\ proc[Other].pc = "idle"
  /\ \E email \in Emails :
       LET s == ShowUserStep(NewCall(email, TRUE, None, None), cache,
                             accounts, now)
       IN /\ s.call.pc # "done"
          /\ proc' = [proc EXCEPT ![Other] = s.call]
  /\ UNCHANGED <<now, cache, accounts, frame, request, input, output>>

\* The other request's show_user call takes its next step: the store query,
\* or memcache.add of the fragment it rendered at its query.
OtherStep ==
  /\ proc[Other].pc # "idle"
  /\ LET s == ShowUserStep(proc[Other], cache, accounts, now)
     IN /\ cache' = s.cache
        /\ proc' = [proc EXCEPT
             ![Other] = IF s.call.pc = "done" THEN Idle ELSE s.call]
        /\ IF s.cache # cache THEN Disturbed ELSE frame' = frame
  /\ UNCHANGED <<now, accounts, request, input, output>>

BatchInit ==
  /\ WorldInit
  /\ proc = [p \in Procs |-> Idle]
  /\ frame = Idle
  /\ request = None
  /\ input = None
  /\ output = None

BatchNext ==
  \/ BeginShowUser
  \/ BeginShowUsers
  \/ RenderNext
  \/ Finish
  \/ (TickWorld(TTL) /\ Disturbed /\ UNCHANGED <<proc, request, input, output>>)
  \/ (UpdateAccountWorld /\ Disturbed
        /\ UNCHANGED <<proc, request, input, output>>)
  \/ OtherCall
  \/ OtherStep

SpecBatch == BatchInit /\ [][BatchNext]_vars

(***************************************************************************)
(* Claims about the filters (specification SpecBatch)                      *)
(***************************************************************************)
Batch == frame.pc # "idle" /\ frame.op = "show_users" /\ frame.email_list # <<>>

\* C2, while the email about to be rendered is the current user's and arg is
\* falsy: the show_user call has made no access to the cache or the store, and
\* its one step returns exactly "me" and reads and writes nothing: the cache,
\* the account store, the batch mapping and the counts of cache reads, account
\* queries and cache writes are as before.
C2_Step ==
  (frame.pc = "render" /\ frame'.pc # "idle") =>
    LET e == frame.email_list[frame.i]
    IN (~frame.arg /\ frame.user # None /\ e = Val(frame.user)) =>
         /\ frame.call.pc = "lookup"
         /\ frame'.i = frame.i \/ frame'.i = frame.i + 1
         /\ frame'.i = frame.i =>
              /\ frame'.call = frame.call
              /\ frame'.parts = frame.parts
         /\ frame'.i = frame.i + 1 =>
              /\ frame'.parts = Append(frame.parts, "me")
              /\ (frame.op = "show_user" => Returned(frame') = "me")
              /\ cache' = cache
              /\ accounts' = accounts
         /\ frame'.memcache_results = frame.memcache_results
         /\ frame'.gets = frame.gets
         /\ frame'.queries = frame.queries
         /\ frame'.adds = frame.adds

\* C2: "me" for the current user, bypassing the cache entirely.
C2_MeBypassesCache == [][C2_Step]_vars

\* show_users rendered the current user's email as "me" although the batch
\* read had found a cached fragment for it, and left the mapping alone.
C2_Witness ==
  /\ frame.pc = "done" /\ Batch /\ ~frame.arg /\ frame.user # None
  /\ \E i \in DOMAIN frame.email_list :
       /\ frame.email_list[i] = Val(frame.user)
       /\ frame.parts[i] = "me"
       /\ frame.email_list[i] \in DOMAIN Val(frame.memcache_results)
       /\ Val(frame.memcache_results)[frame.email_list[i]] # "me"
       /\ frame.adds[frame.email_list[i]] = 0

\* C3: a show_users call over a non-empty list during which nobody else
\* changed the clock, the account store or the cache returns its fragments
\* joined by ", " in input order, one per email, and that is the string
\* obtained by calling show_user(email, arg) on each email in turn from the
\* cache and account store the call started in.
C3_SameAsEachShowUser ==
  (frame.pc = "done" /\ Batch /\ frame.expected # None) =>
    /\ Len(frame.parts) = Len(frame.email_list)
    /\ Returned(frame) = Join(frame.parts)
    /\ Returned(frame) = Val(frame.expected)

\* A finished show_users call that served one email from a cache entry gone
\* stale and rendered another afresh.
C3_Witness ==
  /\ frame.pc = "done" /\ Batch /\ frame.expected # None
  /\ \E i, j \in DOMAIN frame.email_list :
       LET ei == frame.email_list[i]
           ej == frame.email_list[j]
       IN /\ frame.parts[i] # "me"
          /\ ei \notin DOMAIN frame.wrote
          /\ frame.parts[i] # Render(accounts[ei], ei)
          /\ ej \in DOMAIN frame.wrote

\* C9: within one show_users call over a non-empty list there is exactly one
\* batch read and no single cache read; each email is queried in the account
\* store at most once and handed to memcache.add at most once, the add
\* following its query (between the two the call waits at memcache.add for
\* that email); and each fragment handed to memcache.add is in the batch
\* mapping.
C9_OncePerEmail ==
  Batch =>
    /\ frame.multi = 1
    /\ frame.gets = 0
    /\ \A e \in Emails :
         /\ frame.queries[e] <= 1
         /\ frame.adds[e] <= frame.queries[e]
         /\ frame.adds[e] < frame.queries[e] =>
              /\ frame.pc = "render"
              /\ frame.call.pc = "add"
              /\ frame.call.email = e
         /\ e \in DOMAIN frame.wrote =>
              /\ frame.adds[e] = 1
              /\ e \in DOMAIN Val(frame.memcache_results)
              /\ Val(frame.memcache_results)[e] = frame.wrote[e]

\* An email that occurs twice in the list was queried and written once, and
\* its memcache.add did not succeed: the cache holds another request's entry.
C9_Witness ==
  /\ frame.pc = "done" /\ Batch
  /\ \E i, j \in DOMAIN frame.email_list :
       LET e == frame.email_list[i]
       IN /\ i < j /\ frame.email_list[j] = e
          /\ frame.queries[e] = 1 /\ frame.adds[e] = 1
          /\ frame.parts[i] = frame.parts[j]
          /\ cache[Key(e)] # None
          /\ Val(cache[Key(e)]).value # frame.wrote[e]

\* C10: every value a call hands to memcache.add (and puts into the batch
\* mapping) for an email is the fragment rendered from the email and the
\* account read for it, whoever the viewer and whatever arg; and from any
\* state between calls, two show_users runs over the same list that differ
\* only in viewer and arg write the same value for every email both write.
C10_ViewerIndependent ==
  /\ frame.pc = "idle" =>
       \A email_list \in EmailLists, a1 \in BOOLEAN, a2 \in BOOLEAN,
          u1 \in Users, u2 \in Users :
         LET w1 == ShowUsers(email_list, a1, u1, cache, accounts, now).wrote
             w2 == ShowUsers(email_list, a2, u2, cache, accounts, now).wrote
         IN \A e \in DOMAIN w1 \cap DOMAIN w2 : w1[e] = w2[e]
  /\ frame.pc # "idle" =>
       \A e \in DOMAIN frame.wrote :
         /\ e \in DOMAIN frame.seen
         /\ frame.wrote[e] = Render(frame.seen[e], e)

\* A show_users call rendered the viewer's own email as "me" and wrote the
\* fragment of another email to the cache.
C10_Witness ==
  /\ frame.pc = "done" /\ Batch /\ ~frame.arg /\ frame.user # None
  /\ \E i, j \in DOMAIN frame.email_list :
       /\ frame.email_list[i] = Val(frame.user)
       /\ frame.parts[i] = "me"
       /\ frame.email_list[i] \notin DOMAIN frame.wrote
       /\ frame.email_list[j] \in DOMAIN frame.wrote
       /\ cache[Key(frame.email_list[j])] # None
       /\ Val(cache[Key(frame.email_list[j])]).value
            = frame.wrote[frame.email_list[j]]

(***************************************************************************)
(* show_user(email) for any email and any account, step by step, with      *)
(* another request's call for the same email under way                     *)
(***************************************************************************)
Chars == {"a", "@", "&", "<", ">", "\""}
Strings(n) == UNION {[1..k -> Chars] : k \in 0..n}
AnyAccounts == {None} \cup
  {Some([nickname |-> n, user_has_selected_nickname |-> b]) :
     n \in Strings(MaxNickLen), b \in BOOLEAN}

\* What the store held for the email when an earlier request read it, before
\* the account became what it is: no account if there is a chosen nickname
\* now, an account with the chosen nickname Nick if there is none.
EarlierAccount(account) ==
  IF account # None /\ Val(account).user_has_selected_nickname
  THEN None ELSE Account(TRUE)

\* Another request's show_user(email) that missed the cache and read the
\* store earlier, and now waits at its memcache.add (line 59).
WaitingAtAdd(email, account) ==
  [NewCall(email, TRUE, None, None) EXCEPT
     !.pc = "add", !.got = TRUE, !.queried = TRUE,
     !.ret = Some(Render(account, email))]

\* show_user(email, True) is called on an empty cache, while another request
\* waits at its memcache.add for the same email.
RenderInit ==
  /\ now = 0
  /\ input \in [email : Strings(MaxEmailLen), account : AnyAccounts]
  /\ cache = [k \in {Key(input.email)} |-> None]
  /\ accounts = [e \in {input.email} |-> input.account]
  /\ proc = [p \in Procs |->
               IF p = Other
               THEN WaitingAtAdd(input.email, EarlierAccount(input.account))
               ELSE Idle]
  /\ frame = NewCall(input.email, TRUE, None, None)
  /\ request = None
  /\ output = None

\* The call takes its next step (the cache read, the store query or
\* memcache.add); output is what it did, once it has returned.
RenderStep ==
  /\ frame.pc # "done"
  /\ LET s == ShowUserStep(frame, cache, accounts, now)
     IN /\ frame' = s.call
        /\ cache' = s.cache
        /\ output' = IF s.call.pc = "done"
                      THEN Some(RunShowUser(s.call, s.cache, accounts, now))
                      ELSE output
  /\ UNCHANGED <<now, accounts, proc, request, input>>

\* Once the waiting request has added its fragment, any further call of
\* another request for the email hits the cache and changes nothing.
RenderNextStep ==
  \/ RenderStep
  \/ OtherStep

SpecRender == RenderInit /\ [][RenderNextStep]_vars

(***************************************************************************)
(* UrlAppendViewSettingsNode.render                                        *)
(***************************************************************************)
\* What a template variable resolves to: VariableDoesNotExist, None, an int.
Undefined == [kind |-> "undefined"]
PyNone == [kind |-> "None"]
PyInt(n) == [kind |-> "int", n |-> n]
TemplateValues == {Undefined, PyNone} \cup {PyInt(n) : n \in -MaxInt..MaxInt}

Digit(d) == <<"0", "1", "2", "3", "4", "5", "6", "7", "8", "9">>[d + 1]

RECURSIVE NatToStr(_)
NatToStr(n) == IF n < 10 THEN Digit(n) ELSE NatToStr(n \div 10) \o Digit(n % 10)

\* '%d' % n
IntToStr(n) == IF n < 0 THEN "-" \o NatToStr(-n) ELSE NatToStr(n)

\* Mutant of ContextParams: "current_context >= 0".
ContextParamsFromZero(v) ==
  LET current_context == IF v = Undefined THEN PyInt(-1) ELSE v
  IN IF current_context = PyNone THEN <<"context=">>
     ELSE IF current_context.kind = "int" /\ current_context.n >= 0
     THEN <<"context=" \o IntToStr(current_context.n)>>
     ELSE <<>>

\* Lines 104-112: what the variable context adds to url_params.
ContextParams(v) ==
  LET current_context == IF v = Undefined THEN PyInt(-1) ELSE v
  IN IF current_context = PyNone THEN <<"context=">>
     ELSE IF current_context.kind = "int" /\ current_context.n > 0
     THEN <<"context=" \o IntToStr(current_context.n)>>
     ELSE <<>>

\* Lines 114-120: what the variable column_width adds to url_params.
ColwidthParams(v) ==
  LET current_colwidth == IF v = Undefined THEN PyNone ELSE v
  IN IF current_colwidth # PyNone
     THEN <<"column_width=" \o IntToStr(current_colwidth.n)>>
     ELSE <<>>

RECURSIVE JoinAmp(_)
\* '&'.join(url_params)
JoinAmp(params) ==
  IF params = <<>> THEN ""
  ELSE IF Len(params) = 1 THEN params[1]
  ELSE params[1] \o "&" \o JoinAmp(Tail(params))

\* Lines 100-124: render(context).
UrlAppendViewSettingsRender(context, column_width) ==
  LET url_params == ContextParams(context) \o ColwidthParams(column_width)
  IN IF url_params # <<>> THEN "?" \o JoinAmp(url_params) ELSE ""

UrlInit ==
  /\ now = 0
  /\ cache = [k \in Keys |-> None]
  /\ accounts = [e \in Emails |-> None]
  /\ proc = [p \in Procs |-> Idle]
  /\ frame = Idle
  /\ request = None
  /\ input \in [context : TemplateValues, column_width : TemplateValues]
  /\ output = None

\* The template renders the urlappend_view_settings tag.
UrlRender ==
  /\ output = None
  /\ output' = Some(UrlAppendViewSettingsRender(input.context,
                                                 input.column_width))
  /\ UNCHANGED <<now, cache, accounts, proc, frame, request, input>>

SpecUrl == UrlInit /\ [][UrlRender]_vars

(***************************************************************************)
(* Claims about the rendered fragment (specification SpecRender)           *)
(***************************************************************************)
\* The HTML entity of a character, or the character itself.
Entity(c) == IF c = "&" THEN "&amp;" ELSE IF c = "<" THEN "&lt;"
             ELSE IF c = ">" THEN "&gt;" ELSE c

RECURSIVE Entities(_, _)
\* The first n characters of s, each by its entity.
Entities(s, n) == IF n = 0 THEN "" ELSE Entities(s, n - 1) \o Entity(s[n])

\* The length of the part of s before its first '@' (all of s if it has none).
BeforeAt(s) ==
  IF \E i \in DOMAIN s : s[i] = "@"
  THEN (CHOOSE i \in DOMAIN s :
          s[i] = "@" /\ \A j \in 1..(i - 1) : s[j] # "@") - 1
  ELSE Len(s)

ChosenNickname(account) ==
  account # None /\ Val(account).user_has_selected_nickname

\* C5 as stated: the fragment computed on a cache miss is never empty.
C5_AsStated == (output # None /\ Val(output).queried) => Val(output).ret # ""

\* C5 amended: the fragment computed on a cache miss, handed to memcache.add
\* and returned is empty only for an email that is empty or starts with '@'
\* and has no account with a chosen nickname; for every other email it is
\* non-empty.  After the call the cache has an entry for the email: this
\* fragment, or the one another request added first.
C5_NonEmptyFragment ==
  (output # None /\ Val(output).queried) =>
    LET r == Val(output)
        entry == r.cache[Key(input.email)]
    IN /\ r.added
       /\ entry # None
       /\ \/ Val(entry).value = r.ret
          \/ Val(entry).value =
               Val(WaitingAtAdd(input.email,
                                EarlierAccount(input.account)).ret)
       /\ r.ret = "" <=>
            /\ ~ChosenNickname(input.account)
            /\ input.email = <<>> \/ input.email[1] = "@"

\* An email without '@' and without account rendered as itself, non-empty.
C5_Witness ==
  /\ output # None /\ Val(output).queried
  /\ input.email = <<"a", "a">> /\ input.account = None
  /\ Val(output).ret = "aa"
  /\ Val(output).cache[Key(input.email)] =
       Some([value |-> "aa", expires |-> TTL])

\* C6: on a cache miss the fragment is the anchor whose link identifier and
\* text are the escaped nickname exactly when the account exists and its
\* nickname was chosen, and otherwise the escaped part of the email before
\* its first '@' (the whole email without one), with no link.
C6_AnchorIffChosenNickname ==
  (output # None /\ Val(output).queried) =>
    LET a == input.account
        e == input.email
    IN Val(output).ret =
         IF ChosenNickname(a)
         THEN LET key == Entities(Val(a).nickname, Len(Val(a).nickname))
              IN "<a href=\"/user/" \o key
                   \o "\" onMouseOver=\"M_showUserInfoPopup(this)\">"
                   \o key \o "</a>"
         ELSE Entities(e, BeforeAt(e))

\* An account whose nickname was not chosen: the local part, escaped, no link.
\* Another request's memcache.add came first: the entry is its anchor.
C6_Witness ==
  /\ output # None /\ Val(output).queried
  /\ input.email = <<"<", "@", "a">>
  /\ input.account = Some([nickname |-> <<"a">>,
                            user_has_selected_nickname |-> FALSE])
  /\ Val(output).ret = "&lt;"
  /\ Val(Val(output).cache[Key(input.email)]).value # "&lt;"

(***************************************************************************)
(* Claims about urlappend_view_settings (specification SpecUrl)            *)
(***************************************************************************)
\* The decimal numeral of an integer of at most two digits.
Numeral(n) ==
  LET m == IF n < 0 THEN -n ELSE n
      d(k) == CASE k = 0 -> "0" [] k = 1 -> "1" [] k = 2 -> "2" [] k = 3 -> "3"
                [] k = 4 -> "4" [] k = 5 -> "5" [] k = 6 -> "6" [] k = 7 -> "7"
                [] k = 8 -> "8" [] k = 9 -> "9"
  IN (IF n < 0 THEN "-" ELSE "")
       \o (IF m >= 10 THEN d(m \div 10) ELSE "") \o d(m % 10)

\* C7: the tag renders "context=" for context None, "context=<n>" for a
\* positive integer and nothing for context undefined, 0 or negative;
\* "column_width=<n>" for an integer column_width; the parameters joined by
\* "&", context first, after a "?"; and "" when there is no parameter.
C7_QueryString ==
  output # None =>
    LET ctx == input.context
        cw == input.column_width
        c == IF ctx = PyNone THEN "context="
             ELSE IF ctx.kind = "int" /\ ctx.n > 0
             THEN "context=" \o Numeral(ctx.n) ELSE ""
        w == IF cw.kind = "int" THEN "column_width=" \o Numeral(cw.n) ELSE ""
        both == c # "" /\ w # ""
    IN /\ Val(output) =
            IF c = "" /\ w = "" THEN ""
            ELSE "?" \o c \o (IF both THEN "&" ELSE "") \o w
       /\ (ctx = PyInt(0) /\ cw = Undefined) => Val(output) = ""
       /\ (ctx = PyNone /\ cw = Undefined) => Val(output) = "?context="
       /\ (ctx = PyInt(5) /\ cw = Undefined) => Val(output) = "?context=5"
       /\ (ctx = PyInt(5) /\ cw = PyInt(80)) =>
            Val(output) = "?context=5&column_width=80"

\* Both parameters rendered, context first.
C7_Witness ==
  /\ input = [context |-> PyInt(5), column_width |-> PyInt(80)]
  /\ output = Some("?context=5&column_width=80")

(***************************************************************************)
(* get_nickname(email, never_me, request)                                  *)
(***************************************************************************)
\* models.Account.get_nickname_for_email(email): the nickname of the email's
\* account, or one derived from the email's local part.
NicknameForEmail(accts, email) ==
  IF accts[email] # None THEN Str(Val(accts[email]).nickname)
  ELSE Str(LocalPart(email))

\* Lines 141-147: "me" for the current user unless never_me.
NicknameIsMe(email, never_me, user) ==
  ~never_me /\ user # None /\ email = Val(user)

\* Mutant of GetNickname: the result of the query is not put into the map.
GetNicknameNotStoring(email, never_me, req, accts) ==
  IF NicknameIsMe(email, never_me, req.user)
  THEN [ret |-> "me", nicknames |-> req.nicknames, queried |-> FALSE]
  ELSE LET nicknames == IF req.nicknames = None THEN EmptyDict
                        ELSE Val(req.nicknames)
       IN IF email \in DOMAIN nicknames
          THEN [ret |-> nicknames[email], nicknames |-> Some(nicknames),
                queried |-> FALSE]
          ELSE [ret |-> NicknameForEmail(accts, email),
                nicknames |-> Some(nicknames), queried |-> TRUE]

\* Lines 132-159 with a request: the value returned, request._nicknames
\* after the call (None while the attribute is not set), and whether
\* Account.get_nickname_for_email was called.
GetNickname(email, never_me, req, accts) ==
  IF NicknameIsMe(email, never_me, req.user)
  THEN [ret |-> "me", nicknames |-> req.nicknames, queried |-> FALSE]
  ELSE LET nicknames == IF req.nicknames = None THEN EmptyDict
                        ELSE Val(req.nicknames)
       IN IF email \in DOMAIN nicknames
          THEN [ret |-> nicknames[email], nicknames |-> Some(nicknames),
                queried |-> FALSE]
          ELSE LET result == NicknameForEmail(accts, email)
               IN [ret |-> result,
                   nicknames |-> Some(DictSet(nicknames, email, result)),
                   queried |-> TRUE]

\* Lines 132-151 with request None: the current user comes from
\* users.get_current_user() and the store is queried, nothing is kept.
GetNicknameNoRequest(email, never_me, user, accts) ==
  IF NicknameIsMe(email, never_me, user)
  THEN [ret |-> "me", queried |-> FALSE]
  ELSE [ret |-> NicknameForEmail(accts, email), queried |-> TRUE]

\* A request arrives: request.user is its user, _nicknames is not set yet.
\* calls, queries and first record what get_nickname did with this request:
\* its calls, its store queries by email, and what each query returned.
NickInit ==
  /\ now = 0
  /\ cache = [k \in Keys |-> None]
  /\ accounts \in {f \in [Emails -> {None, Account(FALSE), Account(TRUE)}] :
                    \A e \in Emails : f[e] \in Accounts(e)}
  /\ proc = [p \in Procs |-> Idle]
  /\ frame = Idle
  /\ request \in [user : Users, nicknames : {None}, calls : {0},
                   queries : {Zero}, first : {EmptyDict}]
  /\ input = None
  /\ output = None

\* The nickname tag renders with the request in the template context.
NicknameWithRequest ==
  /\ request.calls < MaxCalls
  /\ \E email \in Emails, never_me \in BOOLEAN :
       LET r == GetNickname(email, never_me, request, accounts)
       IN /\ request' = [request EXCEPT
               !.nicknames = r.nicknames,
               !.calls = @ + 1,
               !.queries = IF r.queried THEN [@ EXCEPT ![email] = @ + 1] ELSE @,
               !.first = IF r.queried /\ email \notin DOMAIN @
                         THEN DictSet(@, email, r.ret) ELSE @]
          /\ output' = Some([email |-> email, never_me |-> never_me,
                             ret |-> r.ret, queried |-> r.queried,
                             with_request |-> TRUE])
  /\ UNCHANGED <<now, cache, accounts, proc, frame, input>>

\* The nickname tag renders in a template context that has no request.
NicknameWithoutRequest ==
  /\ request.calls < MaxCalls
  /\ \E email \in Emails, never_me \in BOOLEAN, user \in Users :
       LET r == GetNicknameNoRequest(email, never_me, user, accounts)
       IN /\ request' = [request EXCEPT !.calls = @ + 1]
          /\ output' = Some([email |-> email, never_me |-> never_me,
                             ret |-> r.ret, queried |-> r.queried,
                             with_request |-> FALSE])
  /\ UNCHANGED <<now, cache, accounts, proc, frame, input>>

NickNext ==
  \/ NicknameWithRequest
  \/ NicknameWithoutRequest
  \/ (UpdateAccountWorld /\ UNCHANGED <<proc, frame, request, input, output>>)

SpecNick == NickInit /\ [][NickNext]_vars

(***************************************************************************)
(* Claims about get_nickname (specification SpecNick)                      *)
(***************************************************************************)
\* C4: over the get_nickname calls made with one request the store is
\* queried at most once per email; the value the query returned stays in
\* request._nicknames; and a later call with the request for that email
\* returns that value (or "me", for the request's user unless never_me)
\* without a query.
C4_MemoizedPerRequest ==
  /\ \A e \in Emails : request.queries[e] <= 1
  /\ \A e \in DOMAIN request.first :
       /\ request.nicknames # None
       /\ e \in DOMAIN Val(request.nicknames)
       /\ Val(request.nicknames)[e] = request.first[e]
  /\ (output # None /\ Val(output).with_request
        /\ Val(output).email \in DOMAIN request.first) =>
       LET o == Val(output)
       IN \/ o.ret = request.first[o.email]
          \/ /\ o.ret = "me" /\ ~o.queried /\ ~o.never_me
             /\ request.user = Some(o.email)

\* A second call for an email was answered from the request's map, without
\* a query, although the store would by now return another nickname.
C4_Witness ==
  /\ output # None /\ Val(output).with_request /\ ~Val(output).queried
  /\ Val(output).email \in DOMAIN request.first
  /\ Val(output).ret = request.first[Val(output).email]
  /\ Val(output).ret # NicknameForEmail(accounts, Val(output).email)
  /\ request.queries[Val(output).email] = 1

====
